---- MODULE Spec2Model ----
(***************************************************************************)
(* SWIFT (Surface Water Identification and Forecasting Tool).              *)
(*                                                                         *)
(* The classification and time-series pipeline that the constructTimeSeries*)
(* script runs at top level and that SWIFT_classify exports as             *)
(* classifyWater(AOI, start_date, end_date): the classified optical and    *)
(* radar collections, the wind mask, the period composites, the non-water  *)
(* mask, the HAND mask and the zonal area reductions (Spec, and            *)
(* SpecTimeSeries for the runs of constructTimeSeries alone).              *)
(*                                                                         *)
(* Smaller specifications model the parts the pipeline treats as given:   *)
(* waterMapping and the optical classifier's band list (SpecFeatures), the *)
(* two accuracy-assessment scripts (SpecAccuracy), timeSeriesPlot of       *)
(* SWIFT.js (SpecPlot), the cloud masks and the harmonization of the       *)
(* optical collections (SpecPreprocess), the smoothing of the radar        *)
(* classification (SpecSmooth) and the selection panel of SWIFT.js with    *)
(* its asynchronous callbacks (SpecUI). Each keeps the variables of the    *)
(* others at an idle value.                                                *)
(*                                                                         *)
(* Conventions of the model                                                *)
(*   - a date is a day number counted from 2013-01-01 (day 0); the code's  *)
(*     millisecond values are these day numbers times 86 400 000;          *)
(*   - a raster is a function Pixels -> value; NoData marks a masked       *)
(*     pixel; every raster value is stored DOUBLED (0 = label 0, 2 = label *)
(*     1) so that the median of an even number of observations, which is   *)
(*     the mean of the two middle ones, stays an integer (1 = 0.5);        *)
(*   - a wind component is stored in thirds of a metre per second;         *)
(*   - an area is a fraction [num, den], never reduced.                    *)
(***************************************************************************)
EXTENDS Integers, Sequences, FiniteSets, Bags, TLC

VARIABLES
    script,               \* which script runs: "constructTimeSeries" or "classifyWater"
    start_date, end_date, \* the query range
    catalog,              \* the classifier outputs of the source imagery, by sensor and day
    wind,                 \* the CFSV2 rasters: day -> <<u, v>>
    pc,                   \* position in the script
    L8S2_classified,      \* classified optical images of the query range
    S1_classified,        \* smoothed, wind-masked classified radar images
    collection,           \* the merged classified collection
    listMap,              \* the period starts
    mosaics,              \* one composite per period start
    water_collection,     \* mosaics.map(maskNonWater)
    water_masked,         \* water_collection with the HAND mask
    waterArea_AOI,        \* one {date, area} record per composite
    waterArea_allotments, \* constructTimeSeries only: allotment -> {area list, date list}
    im_return,            \* classifyWater only: the returned image
    error,                \* the evaluation error, "" when none
    \* waterMapping and the optical classifier's schema, one image at a time
    wm_script,            \* the script whose copy of waterMapping runs
    wm_im,                \* the preprocessed optical pixel: band name -> reflectance
    wm_return,            \* the image waterMapping returned: band list and values
    wm_input,             \* the image handed to classify(optical_classifier)
    wm_pc,                \* position: "idle", "image", "mapped", "classified"
    \* the two accuracy-assessment scripts
    acc_script,           \* which accuracy script runs
    L8, S2,               \* the optical image collections of the query
    S1_preprocess,        \* the radar image collection of the query
    acc_collection,       \* L8.merge(S2)
    collection_ind,       \* the collection that is mosaicked
    acc_mosaic,           \* collection_ind_mosaic / S1_mosaic: inputs and footprint
    observedPoints,       \* the sampled records: point, water, random
    training, testing,    \* the two partitions
    classifier,           \* the trained classifier
    validation,           \* testing.classify(classifier)
    testAccuracy,         \* the error matrix with its accuracy and kappa
    acc_pc,               \* position in the accuracy script
    \* SWIFT.js: timeSeriesPlot
    allotmentRecords,     \* the rows of the compiled asset waterArea_allotments
    allotmentSelected,    \* the allotment chosen in the drop-down
    areas_sorted,         \* the chart's values
    dates_sorted,         \* the chart's x labels
    plot_pc,              \* "idle", "selected", "plotted" or "failed"
    \* the optical preprocessing of one image, up to the merge
    pp_collection,        \* the collection mapped: L8training, S2training, L8 or S2
    pp_image,             \* one pixel of a catalogue image: bands, QA, time
    qa_masked,            \* the image after L8QAMask / S2QAMask
    selected,             \* after select([...], [...]), the six renamed bands
    preprocessed,         \* the image that reaches the merge and waterMapping
    pp_pc,                \* position in the chain
    \* the smoothing of the radar classification at one pixel
    sm_script,            \* the script that smooths
    window,               \* the classification in the kernel's window round the pixel
    smooth,               \* convolve(boxcar) at the pixel
    waterIm,              \* the smoothed classification at the pixel
    sm_pc,                \* "idle", "classified", "convolved", "smoothed" or "masked"
    \* SWIFT.js: the selection panel and the classification runs
    stateDD,              \* each drop-down: its items, its value and the number
    nationalforestDD,     \*   of onChange callbacks registered on it
    districtDD,
    allotmentDD,
    classifyButton,       \* the onClick callbacks, each with the allotment it closes over
    dateSelect,           \* the day chosen on the date slider
    pending,              \* the evaluate calls that have not returned, a bag
    runs,                 \* the calls of classifyWater, in the order made
    dateLabel, areaLabel, \* the two result labels
    clicks,               \* per click of the button, the allotment selected then
    ui_steps              \* number of user actions so far

pipelineVars == <<script, start_date, end_date, catalog, wind, pc, L8S2_classified,
                  S1_classified, collection, listMap, mosaics, water_collection,
                  water_masked, waterArea_AOI, waterArea_allotments, im_return, error>>

featureVars == <<wm_script, wm_im, wm_return, wm_input, wm_pc>>

accuracyVars == <<acc_script, L8, S2, S1_preprocess, acc_collection, collection_ind,
                  acc_mosaic, observedPoints, training, testing, classifier,
                  validation, testAccuracy, acc_pc>>

plotVars == <<allotmentRecords, allotmentSelected, areas_sorted, dates_sorted, plot_pc>>

preprocessVars == <<pp_collection, pp_image, qa_masked, selected, preprocessed, pp_pc>>

smoothVars == <<sm_script, window, smooth, waterIm, sm_pc>>

uiVars == <<stateDD, nationalforestDD, districtDD, allotmentDD, classifyButton,
            dateSelect, pending, runs, dateLabel, areaLabel, clicks, ui_steps>>

restVars == <<smoothVars, uiVars>>

laterVars == <<preprocessVars, restVars>>

auxVars == <<featureVars, accuracyVars, plotVars, laterVars>>

vars == <<pipelineVars, auxVars>>

(***************************************************************************)
(* Bounds of the model.                                                    *)
(***************************************************************************)
NPix == 3          \* pixels of the modelled grid
MaxImages == 3     \* source images in the catalog

Pixels == 1..NPix
NoData == 0 - 1

(***************************************************************************)
(* Calendar: ee.Date on the days of 2013.                                  *)
(***************************************************************************)
DaysInMonth == <<31, 28, 31, 30, 31, 30, 31, 31, 30, 31, 30, 31>>

RECURSIVE DaysBefore(_)
DaysBefore(m) == IF m = 1 THEN 0 ELSE DaysBefore(m - 1) + DaysInMonth[m - 1]

\* the month (1..12) of day number d
MonthOf(d) == CHOOSE m \in 1..12 : DaysBefore(m) <= d /\ d < DaysBefore(m) + DaysInMonth[m]

DayOfMonth(d) == d - DaysBefore(MonthOf(d)) + 1

\* ee.Date.advance(1, 'month'): same day of the next month, clamped to its length
AdvanceMonth(d) ==
    LET m == MonthOf(d) + 1
        dom == IF DayOfMonth(d) > DaysInMonth[m] THEN DaysInMonth[m] ELSE DayOfMonth(d)
    IN  DaysBefore(m) + dom - 1

\* ee.Date.advance(1, 'week')
AdvanceWeek(d) == d + 7

\* ee.Filter.calendarRange(3, 11, 'month')
CalendarRange(d) == MonthOf(d) >= 3 /\ MonthOf(d) <= 11

\* filterDate(start, end): start inclusive, end exclusive
FilterDate(d, s, e) == s <= d /\ d < e

(***************************************************************************)
(* The inputs: the run's parameters, the source imagery and the wind.      *)
(***************************************************************************)
Scripts == {"constructTimeSeries", "classifyWater"}

\* 2013-04-01, the start_date of constructTimeSeries
StartDates == {DaysBefore(4)}

\* lengths of the query range in days: the 5 days of the SWIFT panel, one week,
\* the two weeks of constructTimeSeries, and the month of April
RangeDays == {5, 7, 14, DaysInMonth[4]}

\* acquisition days of the source images and of the wind rasters
AcqDays == {DaysBefore(4) + 2, DaysBefore(4) + 9}

Sensors == {"L8S2", "S1"}

Slots == Sensors \X AcqDays

\* classifier outputs of one image (doubled labels): uniform, or one water pixel
Rasters ==
    {[p \in Pixels |-> v] : v \in {0, 2, NoData}}
        \cup {[p \in Pixels |-> IF p = q THEN 2 ELSE 0] : q \in Pixels}

Absent == <<>>

Catalogs ==
    {{[sensor |-> s[1], time |-> s[2], px |-> c[s]] : s \in {t \in Slots : c[t] # Absent}} :
        c \in {d \in [Slots -> Rasters \cup {Absent}] :
                 Cardinality({t \in Slots : d[t] # Absent}) <= MaxImages}}

\* <<u, v>> in thirds of m/s: 6 km/h, exactly 12 km/h, and 18 km/h blowing south-west
WindLevels == {<<3, 4>>, <<6, 8>>, <<0 - 9, 0 - 12>>}

\* the study area, and the grazing allotments, as sets of pixels
StudyArea == 1..(NPix - 1)

AllotmentGeometry == <<{1}, Pixels \ {1}>>

Allotments == DOMAIN AllotmentGeometry

\* the region of the run
AOI == StudyArea

\* MERIT Hydro 'hnd' (m): 9 at pixel 1, 10 at pixel 2, 11 at pixel 3, ...
HAND == [p \in Pixels |-> 8 + p]

\* the other scripts' variables while this script runs
FeaturesIdle ==
    /\ wm_script = "" /\ wm_im = <<>> /\ wm_return = <<>> /\ wm_input = <<>>
    /\ wm_pc = "idle"

AccuracyIdle ==
    /\ acc_script = "" /\ L8 = {} /\ S2 = {} /\ S1_preprocess = {}
    /\ acc_collection = {} /\ collection_ind = {} /\ acc_mosaic = <<>>
    /\ observedPoints = {} /\ training = {} /\ testing = {}
    /\ classifier = <<>> /\ validation = {} /\ testAccuracy = <<>>
    /\ acc_pc = "idle"

PlotIdle ==
    /\ allotmentRecords = <<>> /\ allotmentSelected = ""
    /\ areas_sorted = <<>> /\ dates_sorted = <<>> /\ plot_pc = "idle"

PreprocessIdle ==
    /\ pp_collection = "" /\ pp_image = <<>> /\ qa_masked = <<>> /\ selected = <<>>
    /\ preprocessed = <<>> /\ pp_pc = "idle"

SmoothIdle ==
    /\ sm_script = "" /\ window = <<>> /\ smooth = <<>> /\ waterIm = <<>>
    /\ sm_pc = "idle"

UIIdle ==
    /\ stateDD = <<>> /\ nationalforestDD = <<>> /\ districtDD = <<>>
    /\ allotmentDD = <<>> /\ classifyButton = <<>> /\ dateSelect = 0
    /\ pending = <<>> /\ runs = <<>> /\ dateLabel = "" /\ areaLabel = ""
    /\ clicks = <<>> /\ ui_steps = 0

RestIdle == SmoothIdle /\ UIIdle

\* the sub-models added after timeSeriesPlot, idle
LaterIdle == PreprocessIdle /\ RestIdle

AuxIdle == FeaturesIdle /\ AccuracyIdle /\ PlotIdle /\ LaterIdle

Init ==
    /\ script \in Scripts
    /\ start_date \in StartDates
    /\ end_date \in {start_date + n : n \in RangeDays}
    /\ catalog \in Catalogs
    /\ wind \in [AcqDays -> WindLevels]
    /\ pc = "start"
    /\ L8S2_classified = {}
    /\ S1_classified = {}
    /\ collection = {}
    /\ listMap = <<>>
    /\ mosaics = <<>>
    /\ water_collection = <<>>
    /\ water_masked = <<>>
    /\ waterArea_AOI = <<>>
    /\ waterArea_allotments = <<>>
    /\ im_return = <<>>
    /\ error = ""
    /\ AuxIdle

(***************************************************************************)
(* Raster primitives of the Earth Engine client library.                   *)
(***************************************************************************)
\* Image.updateMask(mask): a pixel stays valid where it was valid and the mask
\* is valid and non-zero
updateMask(px, mask) ==
    [p \in Pixels |-> IF px[p] # NoData /\ mask[p] # NoData /\ mask[p] # 0
                      THEN px[p] ELSE NoData]

\* Image.clip(geometry)
clip(px, geometry) == [p \in Pixels |-> IF p \in geometry THEN px[p] ELSE NoData]

\* Image.lt(k) on doubled values: 1 where value < k, masked where masked
lt(px, k2) == [p \in Pixels |-> IF px[p] = NoData THEN NoData
                                ELSE IF px[p] < k2 THEN 1 ELSE 0]

SetMax(S) == CHOOSE x \in S : \A y \in S : y <= x

\* the valid values of pixel p over a set of images, in ascending order
SortedValues(images, p) ==
    LET n0 == Cardinality({im \in images : im.px[p] = 0})
        n2 == Cardinality({im \in images : im.px[p] = 2})
    IN  [i \in 1..(n0 + n2) |-> IF i <= n0 THEN 0 ELSE 2]

\* ImageCollection.median() at one pixel: the middle valid value, the mean of
\* the two middle ones when their number is even, masked when there is none
Median(images, p) ==
    LET s == SortedValues(images, p)
        n == Len(s)
    IN  IF n = 0 THEN NoData
        ELSE IF n % 2 = 1 THEN s[(n + 1) \div 2]
        ELSE (s[n \div 2] + s[n \div 2 + 1]) \div 2

\* ee.List.sequence(first, last, step): first, first + step, ... while <= last
ListSequence(first, last, step) ==
    [i \in 1..((last - first) \div step + 1) |-> first + (i - 1) * step]

RECURSIVE SumOver(_, _)
SumOver(f, S) ==
    IF S = {} THEN 0
    ELSE LET x == CHOOSE y \in S : TRUE IN f[x] + SumOver(f, S \ {x})

(***************************************************************************)
(* The classified collections.                                             *)
(***************************************************************************)
\* the images of one sensor in the query range, classified (the catalog holds
\* the classifier's output): the optical collections are filtered by
\* .filterDate(start_date, end_date).filter(calendarRange(3, 11, 'month')),
\* the radar collection by the START_DATE and STOP_DATE of s1_preproc
QueryCollection(sensor) ==
    {im \in catalog : /\ im.sensor = sensor
                      /\ FilterDate(im.time, start_date, end_date)
                      /\ sensor = "L8S2" => CalendarRange(im.time)}

\* windMask(im): the mask is built from the CFSV2 rasters of the whole query
\* range; ws = sqrt(a^2 + b^2) * 3.6 < 12.0 with a, b in thirds of m/s is
\* 36^2 * (a^2 + b^2) < (12 * 30)^2
windSpeedBelowLimit ==
    LET wx == {d \in DOMAIN wind : FilterDate(d, start_date, end_date)}
        a == SetMax({wind[d][2] : d \in wx})
        b == SetMax({wind[d][1] : d \in wx})
    IN  36 * 36 * (a * a + b * b) < (12 * 30) * (12 * 30)

windMask(im) ==
    [im EXCEPT !.px = updateMask(im.px, [p \in Pixels |-> IF windSpeedBelowLimit THEN 1 ELSE 0])]

ClassifyOptical ==
    /\ pc = "start"
    /\ L8S2_classified' = QueryCollection("L8S2")
    /\ pc' = "optical"
    /\ UNCHANGED <<script, start_date, end_date, catalog, wind, S1_classified,
                   collection, listMap, mosaics, water_collection, water_masked,
                   waterArea_AOI, waterArea_allotments, im_return, error>>
    /\ UNCHANGED auxVars

ClassifyRadar ==
    /\ pc = "optical"
    /\ S1_classified' = {windMask(im) : im \in QueryCollection("S1")}
    /\ pc' = "radar"
    /\ UNCHANGED <<script, start_date, end_date, catalog, wind, L8S2_classified,
                   collection, listMap, mosaics, water_collection, water_masked,
                   waterArea_AOI, waterArea_allotments, im_return, error>>
    /\ UNCHANGED auxVars

\* L8S2_classified.merge(S1_classified); classifyWater also clips to the AOI,
\* constructTimeSeries discards the clipped collection (line 374)
MergeCollection ==
    /\ pc = "radar"
    /\ collection' =
         IF script = "classifyWater"
         THEN {[im EXCEPT !.px = clip(im.px, AOI)] : im \in L8S2_classified \cup S1_classified}
         ELSE L8S2_classified \cup S1_classified
    /\ pc' = "merged"
    /\ UNCHANGED <<script, start_date, end_date, catalog, wind, L8S2_classified,
                   S1_classified, listMap, mosaics, water_collection, water_masked,
                   waterArea_AOI, waterArea_allotments, im_return, error>>
    /\ UNCHANGED auxVars

(***************************************************************************)
(* The period composites.                                                  *)
(***************************************************************************)
monthDifference == AdvanceMonth(start_date) - start_date

weekDifference == AdvanceWeek(start_date) - start_date

\* an image reduced from an empty collection has no band
mosaicByDate(date) ==
    [time_start |-> date,
     dateYMD    |-> date,
     numbImages |-> Cardinality(collection),
     bands      |-> IF collection = {} THEN {} ELSE {"classification"},
     px         |-> [p \in Pixels |-> Median(collection, p)]]

MapMosaicByDate ==
    /\ pc = "merged"
    /\ listMap' = ListSequence(start_date, end_date,
                               IF script = "classifyWater" THEN weekDifference
                               ELSE monthDifference)
    /\ mosaics' = [i \in DOMAIN listMap' |-> mosaicByDate(listMap'[i])]
    /\ pc' = "mosaics"
    /\ UNCHANGED <<script, start_date, end_date, catalog, wind, L8S2_classified,
                   S1_classified, collection, water_collection, water_masked,
                   waterArea_AOI, waterArea_allotments, im_return, error>>
    /\ UNCHANGED auxVars

(***************************************************************************)
(* Water where classification = 1, and the HAND mask.                      *)
(***************************************************************************)
\* im.updateMask(im.select('classification').lt(1))
maskNonWater(im) == [im EXCEPT !.px = updateMask(im.px, lt(im.px, 2))]

\* select('classification') on an image without that band is an error
MapMaskNonWater ==
    /\ pc = "mosaics"
    /\ IF \E i \in DOMAIN mosaics : "classification" \notin mosaics[i].bands
       THEN /\ pc' = "failed"
            /\ error' = "Image.select: Pattern 'classification' did not match any bands."
            /\ UNCHANGED water_collection
       ELSE /\ pc' = "water"
            /\ water_collection' = [i \in DOMAIN mosaics |-> maskNonWater(mosaics[i])]
            /\ UNCHANGED error
    /\ UNCHANGED <<script, start_date, end_date, catalog, wind, L8S2_classified,
                   S1_classified, collection, listMap, mosaics, water_masked,
                   waterArea_AOI, waterArea_allotments, im_return>>
    /\ UNCHANGED auxVars

\* HAND.lt(10)
HANDmask == [p \in Pixels |-> IF HAND[p] < 10 THEN 1 ELSE 0]

MapHANDmask ==
    /\ pc = "water"
    /\ water_masked' = [i \in DOMAIN water_collection |->
                          [water_collection[i] EXCEPT !.px = updateMask(@, HANDmask)]]
    /\ pc' = "masked"
    /\ UNCHANGED <<script, start_date, end_date, catalog, wind, L8S2_classified,
                   S1_classified, collection, listMap, mosaics, water_collection,
                   waterArea_AOI, waterArea_allotments, im_return, error>>
    /\ UNCHANGED auxVars

(***************************************************************************)
(* The zonal area reductions.                                              *)
(***************************************************************************)
\* ee.Image.pixelArea() at scale 30, in square metres
pixelArea == 30 * 30

\* im.multiply(pixelArea / divisor) summed by reduceRegion over the valid
\* pixels of the geometry; the raster values are doubled, hence the 2
reduceRegion(px, geometry, divisor) ==
    [num |-> SumOver([p \in Pixels |-> px[p] * pixelArea],
                     {p \in geometry : px[p] # NoData}),
     den |-> 2 * divisor]

\* constructTimeSeries divides the pixel area by 1e6, classifyWater does not
areaDivisor == IF script = "classifyWater" THEN 1 ELSE 1000000

\* the collection mapped by calculateWaterArea_AOI: water_masked in
\* constructTimeSeries (line 418), water_collection in classifyWater (line 857)
reducedCollection == IF script = "classifyWater" THEN water_collection ELSE water_masked

calculateWaterArea_AOI(im) ==
    [time_start |-> im.time_start,
     dateYMD    |-> im.dateYMD,
     numbImages |-> im.numbImages,
     px         |-> im.px,
     area       |-> reduceRegion(im.px, AOI, areaDivisor),
     date       |-> im.time_start]

MapCalculateWaterArea_AOI ==
    /\ pc = "masked"
    /\ waterArea_AOI' = [i \in DOMAIN reducedCollection |->
                           calculateWaterArea_AOI(reducedCollection[i])]
    /\ pc' = "aoi"
    /\ UNCHANGED <<script, start_date, end_date, catalog, wind, L8S2_classified,
                   S1_classified, collection, listMap, mosaics, water_collection,
                   water_masked, waterArea_allotments, im_return, error>>
    /\ UNCHANGED auxVars

\* mutant: a reduction without valid pixels gives null, which aggregate_array drops
calculateWaterArea_allotments_DropNull(feature) ==
    [area |-> SelectSeq([i \in DOMAIN water_masked |->
                           reduceRegion(water_masked[i].px, AllotmentGeometry[feature], 1000000)],
                        LAMBDA r : r.num # 0),
     date |-> [i \in DOMAIN water_masked |-> water_masked[i].time_start]]

\* mutant: the allotment's reduction also covers the parent region
calculateWaterArea_allotments_WithParent(feature) ==
    [area |-> [i \in DOMAIN water_masked |->
                 reduceRegion(water_masked[i].px, AllotmentGeometry[feature] \cup AOI, 1000000)],
     date |-> [i \in DOMAIN water_masked |-> water_masked[i].time_start]]

\* aggregate_array leaves out the features whose property is null; the sum
\* of reduceRegion is never null, so the lists here hold every composite
calculateWaterArea_allotments(feature) ==
    [area |-> [i \in DOMAIN water_masked |->
                 reduceRegion(water_masked[i].px, AllotmentGeometry[feature], 1000000)],
     date |-> [i \in DOMAIN water_masked |-> water_masked[i].time_start]]

\* allotments.map(calculateWaterArea_allotments), over the allotments that
\* allotments_USFS.filterBounds(AZ.geometry()) holds
MapCalculateWaterArea_allotments ==
    /\ pc = "aoi"
    /\ script = "constructTimeSeries"
    /\ \E allotments \in SUBSET Allotments :
         waterArea_allotments' = [a \in allotments |-> calculateWaterArea_allotments(a)]
    /\ pc' = "done"
    /\ UNCHANGED <<script, start_date, end_date, catalog, wind, L8S2_classified,
                   S1_classified, collection, listMap, mosaics, water_collection,
                   water_masked, waterArea_AOI, im_return, error>>
    /\ UNCHANGED auxVars

\* waterArea_AOI.first().addBands(L8S2.first().select([...])): first() of an
\* empty optical collection is no image, and the select on it is an error
Return ==
    /\ pc = "aoi"
    /\ script = "classifyWater"
    /\ IF L8S2_classified = {}
       THEN /\ pc' = "failed"
            /\ error' = "Image.select: Parameter 'input' is required."
            /\ UNCHANGED im_return
       ELSE /\ pc' = "done"
            /\ im_return' = waterArea_AOI[1]
            /\ UNCHANGED error
    /\ UNCHANGED <<script, start_date, end_date, catalog, wind, L8S2_classified,
                   S1_classified, collection, listMap, mosaics, water_collection,
                   water_masked, waterArea_AOI, waterArea_allotments>>
    /\ UNCHANGED auxVars

Next ==
    \/ ClassifyOptical
    \/ ClassifyRadar
    \/ MergeCollection
    \/ MapMosaicByDate
    \/ MapMaskNonWater
    \/ MapHANDmask
    \/ MapCalculateWaterArea_AOI
    \/ MapCalculateWaterArea_allotments
    \/ Return

Spec == Init /\ [][Next]_vars

\* the runs of constructTimeSeries alone
TimeSeriesInit == Init /\ script = "constructTimeSeries"

TimeSeriesNext ==
    \/ ClassifyOptical
    \/ ClassifyRadar
    \/ MergeCollection
    \/ MapMosaicByDate
    \/ MapMaskNonWater
    \/ MapHANDmask
    \/ MapCalculateWaterArea_AOI
    \/ MapCalculateWaterArea_allotments

SpecTimeSeries == TimeSeriesInit /\ [][TimeSeriesNext]_vars

\* ---------------------------------------------------------------------------
\* waterMapping: the predictor bands of the optical classifier, computed from
\* one preprocessed pixel. The three copies of the function are modelled by
\* one operator with the script as a parameter.
\* ---------------------------------------------------------------------------

\* the pipeline's variables while another script is modelled
PipelineIdle ==
    /\ script = "" /\ start_date = 0 /\ end_date = 0 /\ catalog = {}
    /\ wind = <<>> /\ pc = "idle" /\ L8S2_classified = {} /\ S1_classified = {}
    /\ collection = {} /\ listMap = <<>> /\ mosaics = <<>>
    /\ water_collection = <<>> /\ water_masked = <<>> /\ waterArea_AOI = <<>>
    /\ waterArea_allotments = <<>> /\ im_return = <<>> /\ error = ""

OpticalScripts == {"constructTimeSeries", "classifyWater",
                   "L8S2_classificationAccuracyAssessment"}

\* the renamed bands of the preprocessed optical images
OpticalBands == {"blue", "green", "red", "NIR", "SWIR1", "SWIR2"}

\* reflectances of one pixel, in units of the sensor's quantisation
Reflectances == {0, 1, 3}

\* values are exact fractions num/den; a masked pixel has no value
Masked == [num |-> 0, den |-> 0]

\* mutant: the bands of the difference swapped
normalizedDifference_Swapped(im, b1, b2) ==
    IF im[b1] < 0 \/ im[b2] < 0 \/ im[b1] + im[b2] = 0
    THEN Masked
    ELSE [num |-> im[b2] - im[b1], den |-> im[b1] + im[b2]]

\* ee.Image.normalizedDifference([b1, b2]): (b1 - b2) / (b1 + b2); the output
\* is masked where an input is negative and where the sum is zero
normalizedDifference(im, b1, b2) ==
    IF im[b1] < 0 \/ im[b2] < 0 \/ im[b1] + im[b2] = 0
    THEN Masked
    ELSE [num |-> im[b1] - im[b2], den |-> im[b1] + im[b2]]

\* "b+2.5*g-1.5*(n+s)-0.25*w", in quarters
AWEIsh(im) ==
    [num |-> 4 * im["blue"] + 10 * im["green"] - 6 * (im["NIR"] + im["SWIR1"])
               - im["SWIR2"],
     den |-> 4]

\* '0.1511 * b + 0.1973 * g + 0.3283 * r + 0.3407 * n + -0.7117 * s1 + -0.4559 * s2',
\* in ten-thousandths
TCW(im) ==
    [num |-> 1511 * im["blue"] + 1973 * im["green"] + 3283 * im["red"]
               + 3407 * im["NIR"] + (0 - 7117) * im["SWIR1"]
               + (0 - 4559) * im["SWIR2"],
     den |-> 10000]

\* the name the script gives the Tasseled-Cap Wetness band
TCWname(s) == IF s = "constructTimeSeries" THEN "TWC" ELSE "TCW"

\* the list of the final im_Bands.select([...]) of waterMapping
returnedBands(s) ==
    IF s = "L8S2_classificationAccuracyAssessment"
    THEN <<"red", "green", "blue", "MNDWI", "AWEIsh", "TCW", "NDVI">>
    ELSE <<"MNDWI", "AWEIsh", TCWname(s), "NDVI">>

Range(list) == {list[i] : i \in DOMAIN list}

\* Image.select(names): the named bands, in the order of the list
select(image, names) ==
    [bands |-> names, value |-> [b \in Range(names) |-> image.value[b]]]

\* im.addBands([MNDWI, AWEIsh, TCW, NDVI]), the bands under their new names
im_Bands(s, im) ==
    [bands |-> <<"blue", "green", "red", "NIR", "SWIR1", "SWIR2",
                 "MNDWI", "AWEIsh", TCWname(s), "NDVI">>,
     value |-> [b \in OpticalBands \cup {"MNDWI", "AWEIsh", TCWname(s), "NDVI"} |->
                  CASE b = "MNDWI" -> normalizedDifference(im, "green", "SWIR1")
                    [] b = "AWEIsh" -> AWEIsh(im)
                    [] b = TCWname(s) -> TCW(im)
                    [] b = "NDVI" -> normalizedDifference(im, "NIR", "red")
                    [] OTHER -> [num |-> im[b], den |-> 1]]]

waterMapping(s, im) == select(im_Bands(s, im), returnedBands(s))

\* mutant: the predictor list in another order
optical_bands_Reordered(s) == <<"MNDWI", "AWEIsh", "NDVI", TCWname(s)>>

\* optical_bands (bands in the accuracy script): the inputProperties of the
\* optical classifier and the bands sampled for its training
optical_bands(s) == <<"MNDWI", "AWEIsh", TCWname(s), "NDVI">>

FeaturesInit ==
    /\ PipelineIdle
    /\ wm_script \in OpticalScripts
    /\ wm_im \in [OpticalBands -> Reflectances]
    /\ wm_return = <<>>
    /\ wm_input = <<>>
    /\ wm_pc = "image"
    /\ AccuracyIdle
    /\ PlotIdle
    /\ LaterIdle

\* L8S2.map(waterMapping) / L8.map(waterMapping)
MapWaterMapping ==
    /\ wm_pc = "image"
    /\ wm_return' = waterMapping(wm_script, wm_im)
    /\ wm_pc' = "mapped"
    /\ UNCHANGED <<wm_script, wm_im, wm_input>>
    /\ UNCHANGED <<pipelineVars, accuracyVars, plotVars, laterVars>>

\* the image classify(optical_classifier) receives: the accuracy script
\* selects bands first, the other two classify waterMapping's image as it is
ClassifyFeatures ==
    /\ wm_pc = "mapped"
    /\ wm_input' = IF wm_script = "L8S2_classificationAccuracyAssessment"
                   THEN select(wm_return, optical_bands(wm_script))
                   ELSE wm_return
    /\ wm_pc' = "classified"
    /\ UNCHANGED <<wm_script, wm_im, wm_return>>
    /\ UNCHANGED <<pipelineVars, accuracyVars, plotVars, laterVars>>

FeaturesNext == MapWaterMapping \/ ClassifyFeatures

SpecFeatures == FeaturesInit /\ [][FeaturesNext]_vars

\* ---------------------------------------------------------------------------
\* The accuracy-assessment scripts: L8S2_classificationAccuracyAssessment and
\* S1_classificationAccuracyAssessment.
\* ---------------------------------------------------------------------------

NPoints == 3       \* digitized reference points

Points == 1..NPoints

AccuracyScripts == {"L8S2_classificationAccuracyAssessment",
                    "S1_classificationAccuracyAssessment"}

\* the imported assets: the digitized pond points and the selected dry points
water == {p \in Points : p % 2 = 1}

nonWater == Points \ water

\* water.map(function(p){ return ee.Feature(ee.Geometry.Point(...), {'water':1}) })
waterPts == {[point |-> p, water |-> 1] : p \in water}

\* nonWater.map(function(p){ return ee.Feature(ee.Geometry.Point(...), {'water':0}) })
dryPts == {[point |-> p, water |-> 0] : p \in nonWater}

\* FeatureCollection.merge
merge(collection1, collection2) == collection1 \cup collection2

\* var points = waterPts.merge(dryPts)
points == merge(waterPts, dryPts)

\* values of the column randomColumn() adds, in tenths
RandomValues == {7, 8, 9}

\* var split = 0.8, in tenths
split == 8

\* the images a filtered collection may hold: none, or one image covering
\* some of the points
ImagesOf(sensor) ==
    {{}} \cup {{[id |-> sensor, footprint |-> F]} : F \in (SUBSET Points) \ {{}}}

\* the pre-processed Sentinel-1 collection: one image, with the pixels where
\* the wind speed at acquisition is 12 or more
S1Images ==
    {{[id |-> "S1", footprint |-> F, windy |-> W]} :
        F \in (SUBSET Points) \ {{}}, W \in SUBSET Points}

AccuracyInit ==
    /\ PipelineIdle
    /\ FeaturesIdle
    /\ PlotIdle
    /\ LaterIdle
    /\ acc_script \in AccuracyScripts
    /\ IF acc_script = "L8S2_classificationAccuracyAssessment"
       THEN L8 \in ImagesOf("L8") /\ S2 \in ImagesOf("S2") /\ S1_preprocess = {}
       ELSE L8 = {} /\ S2 = {} /\ S1_preprocess \in S1Images
    /\ acc_collection = {} /\ collection_ind = {} /\ acc_mosaic = <<>>
    /\ observedPoints = {}
    /\ training = {} /\ testing = {}
    /\ classifier = <<>> /\ validation = {} /\ testAccuracy = <<>>
    /\ acc_pc = "start"

\* ImageCollection.mosaic(): the images composited and the pixels they cover
mosaic(images) ==
    [inputs |-> images, footprint |-> UNION {im.footprint : im \in images}]

\* windMask: image.updateMask(ee.Image(0).where(windy.lt(12.0), 1))
windMaskImage(image) == [image EXCEPT !.footprint = image.footprint \ image.windy]

\* S1_preprocess.map(windMask);  -- an expression statement: map returns a new
\* collection, which the script binds to nothing
MapWindMask ==
    /\ acc_pc = "start"
    /\ acc_script = "S1_classificationAccuracyAssessment"
    /\ LET mapped == {windMaskImage(im) : im \in S1_preprocess}
       IN S1_preprocess' = S1_preprocess
    /\ acc_pc' = "windMask"
    /\ UNCHANGED <<acc_script, L8, S2, acc_collection, collection_ind, acc_mosaic,
                   observedPoints, training, testing, classifier, validation,
                   testAccuracy>>
    /\ UNCHANGED <<pipelineVars, featureVars, plotVars, laterVars>>

\* var collection = L8.merge(S2); var collection_ind = L8.map(waterMapping);
\* collection_ind.mosaic()  /  S1_preprocess.mosaic()
MosaicCollection ==
    /\ acc_pc = IF acc_script = "L8S2_classificationAccuracyAssessment"
                THEN "start" ELSE "windMask"
    /\ acc_collection' = merge(L8, S2)
    /\ collection_ind' = IF acc_script = "L8S2_classificationAccuracyAssessment"
                         THEN L8 ELSE S1_preprocess
    /\ acc_mosaic' = mosaic(collection_ind')
    /\ acc_pc' = "mosaic"
    /\ UNCHANGED <<acc_script, L8, S2, S1_preprocess, observedPoints, training,
                   testing, classifier, validation, testAccuracy>>
    /\ UNCHANGED <<pipelineVars, featureVars, plotVars, laterVars>>

\* sampleRegions({collection: points, properties: ['water']}): one record per
\* point the image covers
\* mutant: the sample takes the value of pointsIm's band, 0 where masked
sampleRegions_Unlabelled(image) ==
    {[point |-> f.point, water |-> 0] : f \in {g \in points : g.point \in image.footprint}}

sampleRegions(image) ==
    {[point |-> f.point, water |-> f.water] :
        f \in {g \in points : g.point \in image.footprint}}

\* randomColumn(): the property 'random', here the value rnd draws per point
randomColumn(features, rnd) ==
    {[point |-> r.point, water |-> r.water, random |-> rnd[r.point]] : r \in features}

\* var observedPoints = ...sampleRegions(...).randomColumn(); select(bands) of
\* a mosaic without bands is an evaluation error
SampleRegions ==
    /\ acc_pc = "mosaic"
    /\ IF acc_mosaic.inputs = {}
       THEN /\ acc_pc' = "failed"
            /\ UNCHANGED observedPoints
       ELSE /\ acc_pc' = "sampled"
            /\ \E rnd \in [Points -> RandomValues] :
                 observedPoints' = randomColumn(sampleRegions(acc_mosaic), rnd)
    /\ UNCHANGED <<acc_script, L8, S2, S1_preprocess, acc_collection, collection_ind,
                   acc_mosaic, training, testing, classifier, validation, testAccuracy>>
    /\ UNCHANGED <<pipelineVars, featureVars, plotVars, laterVars>>

\* mutant: the training filter includes the split value
filterTraining_Lte(features) == {r \in features : r.random <= split}

\* observedPoints.filter(ee.Filter.lt('random', split))
filterTraining(features) == {r \in features : r.random < split}

\* observedPoints.filter(ee.Filter.gte('random', split))
filterTesting(features) == {r \in features : r.random >= split}

SplitSamples ==
    /\ acc_pc = "sampled"
    /\ training' = filterTraining(observedPoints)
    /\ testing' = filterTesting(observedPoints)
    /\ acc_pc' = "split"
    /\ UNCHANGED <<acc_script, L8, S2, S1_preprocess, acc_collection, collection_ind,
                   acc_mosaic, observedPoints, classifier, validation, testAccuracy>>
    /\ UNCHANGED <<pipelineVars, featureVars, plotVars, laterVars>>

\* ee.Classifier.smileRandomForest(500).train({features: training, ...}): the
\* forest's prediction for a point's predictors is not determined by the script
Train ==
    /\ acc_pc = "split"
    /\ \E predict \in [Points -> {0, 1}] :
         classifier' = [features |-> training, classProperty |-> "water",
                        predict |-> predict]
    /\ acc_pc' = "trained"
    /\ UNCHANGED <<acc_script, L8, S2, S1_preprocess, acc_collection, collection_ind,
                   acc_mosaic, observedPoints, training, testing, validation,
                   testAccuracy>>
    /\ UNCHANGED <<pipelineVars, featureVars, plotVars, laterVars>>

\* FeatureCollection.classify: adds the property 'classification'
classifyFeatures(features, c) ==
    {[point |-> r.point, water |-> r.water, random |-> r.random,
      classification |-> c.predict[r.point]] : r \in features}

\* var validation = testing.classify(classifier)
Validate ==
    /\ acc_pc = "trained"
    /\ validation' = classifyFeatures(testing, classifier)
    /\ acc_pc' = "validated"
    /\ UNCHANGED <<acc_script, L8, S2, S1_preprocess, acc_collection, collection_ind,
                   acc_mosaic, observedPoints, training, testing, classifier,
                   testAccuracy>>
    /\ UNCHANGED <<pipelineVars, featureVars, plotVars, laterVars>>

\* errorMatrix(actual, predicted) with accuracy() and kappa(), the two as
\* fractions: accuracy = correct / n,
\* kappa = (n * correct - sum_k row_k * col_k) / (n * n - sum_k row_k * col_k)
errorMatrix(features, actual, predicted) ==
    LET matrix == [a \in {0, 1} |-> [q \in {0, 1} |->
                     Cardinality({r \in features : r[actual] = a /\ r[predicted] = q})]]
        n == Cardinality(features)
        correct == matrix[0][0] + matrix[1][1]
        chance == (matrix[0][0] + matrix[0][1]) * (matrix[0][0] + matrix[1][0])
                    + (matrix[1][0] + matrix[1][1]) * (matrix[0][1] + matrix[1][1])
    IN [matrix |-> matrix,
        accuracy |-> [num |-> correct, den |-> n],
        kappa |-> [num |-> n * correct - chance, den |-> n * n - chance]]

\* var testAccuracy = validation.errorMatrix('water', 'classification')
ErrorMatrix ==
    /\ acc_pc = "validated"
    /\ testAccuracy' = errorMatrix(validation, "water", "classification")
    /\ acc_pc' = "done"
    /\ UNCHANGED <<acc_script, L8, S2, S1_preprocess, acc_collection, collection_ind,
                   acc_mosaic, observedPoints, training, testing, classifier,
                   validation>>
    /\ UNCHANGED <<pipelineVars, featureVars, plotVars, laterVars>>

AccuracyNext ==
    \/ MapWindMask
    \/ MosaicCollection
    \/ SampleRegions
    \/ SplitSamples
    \/ Train
    \/ Validate
    \/ ErrorMatrix

SpecAccuracy == AccuracyInit /\ [][AccuracyNext]_vars

\* ---------------------------------------------------------------------------
\* SWIFT.js: timeSeriesPlot, the chart of one allotment's exported series.
\* ---------------------------------------------------------------------------

MaxRecords == 3    \* rows of the asset

\* composite times as <<year, day of the year counted from 0>>
Times == {<<2013, DaysBefore(4)>>, <<2013, DaysBefore(11)>>, <<2014, DaysBefore(3)>>}

\* ee.Date.format('YYYY-MM-dd'), the string as its digits (the hyphens stand
\* at the same places in every string)
format(t) ==
    <<t[1] \div 1000, (t[1] \div 100) % 10, (t[1] \div 10) % 10, t[1] % 10,
      MonthOf(t[2]) \div 10, MonthOf(t[2]) % 10,
      DayOfMonth(t[2]) \div 10, DayOfMonth(t[2]) % 10>>

AllotmentNames == {"A", "B"}

\* areas of the exported rows
Areas == {3, 7}

\* a row of the asset, as calculateWaterArea_allotments exports it
Rows == [allotmentName : AllotmentNames, date : {format(t) : t \in Times}, area : Areas]

\* the order of strings
LexLess(a, b) ==
    \E i \in DOMAIN a :
        /\ i \in DOMAIN b
        /\ a[i] < b[i]
        /\ \A j \in 1..(i - 1) : a[j] = b[j]

\* the orders in which a sort may arrange the elements with these keys
SortOrders(keys) ==
    {perm \in [DOMAIN keys -> DOMAIN keys] :
        /\ \A i, j \in DOMAIN keys : i # j => perm[i] # perm[j]
        /\ \A i, j \in DOMAIN keys : i < j => ~LexLess(keys[perm[j]], keys[perm[i]])}

\* mutant: the list is left in its own order
ListSort_Unsorted(list, keys, perm) == list

\* ee.List.sort(keys): the list in the order perm, which sorts the keys
ListSort(list, keys, perm) == [i \in DOMAIN list |-> list[perm[i]]]

\* FeatureCollection.filter(ee.Filter.eq(property, value))
filterEq(features, value) == SelectSeq(features, LAMBDA r : r.allotmentName = value)

PlotInit ==
    /\ PipelineIdle
    /\ FeaturesIdle
    /\ AccuracyIdle
    /\ LaterIdle
    /\ allotmentRecords \in UNION {[1..n -> Rows] : n \in 0..MaxRecords}
    /\ allotmentSelected \in AllotmentNames
    /\ areas_sorted = <<>>
    /\ dates_sorted = <<>>
    /\ plot_pc = "selected"

\* timeSeriesPlot(allotmentSelected); allotmentName.get(0) of an empty list is
\* an evaluation error
timeSeriesPlot ==
    /\ plot_pc = "selected"
    /\ LET allotment == filterEq(allotmentRecords, allotmentSelected)
           dates == [i \in DOMAIN allotment |-> allotment[i].date]
           areas == [i \in DOMAIN allotment |-> allotment[i].area]
       IN IF allotment = <<>>
          THEN /\ plot_pc' = "failed"
               /\ UNCHANGED <<areas_sorted, dates_sorted>>
          ELSE /\ plot_pc' = "plotted"
               /\ \E perm \in SortOrders(dates) :
                    areas_sorted' = ListSort(areas, dates, perm)
               /\ dates_sorted' = ListSort(dates, dates,
                                           CHOOSE perm \in SortOrders(dates) : TRUE)
    /\ UNCHANGED <<allotmentRecords, allotmentSelected>>
    /\ UNCHANGED <<pipelineVars, featureVars, accuracyVars, laterVars>>

PlotNext == timeSeriesPlot

SpecPlot == PlotInit /\ [][PlotNext]_vars

\* ---------------------------------------------------------------------------
\* The optical preprocessing: L8QAMask, S2QAMask, the band selection and
\* harmonize, for one pixel of one image of a training or a query collection.
\* ---------------------------------------------------------------------------

\* the variables of the sub-models before this one
earlierVars == <<pipelineVars, featureVars, accuracyVars, plotVars>>

EarlierIdle == PipelineIdle /\ FeaturesIdle /\ AccuracyIdle /\ PlotIdle

\* the collections the chain is written for, with their sensor
OpticalCollections == {"L8training", "S2training", "L8", "S2"}

SensorOf(c) == IF c \in {"L8training", "L8"} THEN "L8" ELSE "S2"

\* the six bands selected, in the order of the select lists
SelectedBands(sensor) ==
    IF sensor = "L8" THEN <<"SR_B2", "SR_B3", "SR_B4", "SR_B5", "SR_B6", "SR_B7">>
    ELSE <<"B2", "B3", "B4", "B8", "B11", "B12">>

RenamedBands == <<"blue", "green", "red", "NIR", "SWIR1", "SWIR2">>

\* the bands of a catalogue image that the scripts name or that a pattern
\* could match
CatalogueBands(sensor) ==
    IF sensor = "L8"
    THEN Range(SelectedBands("L8")) \cup {"SR_B1", "SR_QA_AEROSOL", "ST_B10", "QA_PIXEL"}
    ELSE Range(SelectedBands("S2")) \cup {"B1", "QA60"}

\* digital numbers of a band
DigitalNumbers == {0, 10000}

\* QA_PIXEL values: every combination of bits 3, 4 and 5, alone and on top
\* of the flags of a clear pixel (21824)
QAPixelValues == {b + c : b \in {0, 8, 16, 24, 32, 40, 48, 56}, c \in {0, 1, 21824}}

\* QA60 values: clear, opaque cloud (bit 10), cirrus (bit 11)
QA60Values == {0, 1024, 2048}

\* one pixel of a catalogue image: the digital numbers of its bands, as
\* fractions, and its quality value
CatalogueImages(sensor) ==
    {[bands |-> [b \in CatalogueBands(sensor) |->
                   IF b \in {"QA_PIXEL", "QA60"} THEN [num |-> qa, den |-> 1]
                   ELSE IF b \in Range(SelectedBands(sensor))
                        THEN [num |-> dn[b], den |-> 1]
                        ELSE [num |-> 10000, den |-> 1]],
      valid |-> TRUE,
      properties |-> [time_start |-> t, CLOUD_COVER |-> 5]]
        : dn \in [Range(SelectedBands(sensor)) -> DigitalNumbers],
          qa \in IF sensor = "L8" THEN QAPixelValues ELSE QA60Values,
          t \in AcqDays}

RECURSIVE bitwiseAnd(_, _)
\* Image.bitwiseAnd, bit by bit
bitwiseAnd(a, b) ==
    IF a = 0 \/ b = 0 THEN 0
    ELSE (a % 2) * (b % 2) + 2 * bitwiseAnd(a \div 2, b \div 2)

RECURSIVE shiftLeft(_, _)
\* 1 << n
shiftLeft(x, n) == IF n = 0 THEN x ELSE shiftLeft(2 * x, n - 1)

\* Image.updateMask on the one pixel
updateMaskPixel(im, mask) == [im EXCEPT !.valid = im.valid /\ mask]

\* Image.divide(k), every band
divide(im, k) ==
    [im EXCEPT !.bands = [b \in DOMAIN im.bands |->
                            [num |-> im.bands[b].num, den |-> im.bands[b].den * k]]]

\* the bands the pattern "SR_B[0-9]*" matches
MatchesSR_B(b) == b \in {"SR_B1", "SR_B2", "SR_B3", "SR_B4", "SR_B5", "SR_B6", "SR_B7"}

\* arithmetic on an image leaves the image's properties behind;
\* copyProperties(image, ["system:time_start"]) brings that one back
copyProperties(im, source) ==
    [im EXCEPT !.properties = [time_start |-> source.properties.time_start]]

dropProperties(im) == [im EXCEPT !.properties = <<>>]

\* mutant: the cloud bit read at bit 4
L8QAMask_Bit4(im) ==
    LET cloudShadowBitMask == shiftLeft(1, 3)
        cloudsBitMask == shiftLeft(1, 4)
        qa == im.bands["QA_PIXEL"].num
        mask == bitwiseAnd(qa, cloudShadowBitMask) = 0 /\ bitwiseAnd(qa, cloudsBitMask) = 0
        scaled == dropProperties(divide(updateMaskPixel(im, mask), 10000))
    IN copyProperties([scaled EXCEPT !.bands =
                         [b \in {c \in DOMAIN scaled.bands : MatchesSR_B(c)} |->
                            scaled.bands[b]]], im)

L8QAMask(im) ==
    LET cloudShadowBitMask == shiftLeft(1, 3)
        cloudsBitMask == shiftLeft(1, 5)
        qa == im.bands["QA_PIXEL"].num
        mask == bitwiseAnd(qa, cloudShadowBitMask) = 0 /\ bitwiseAnd(qa, cloudsBitMask) = 0
        scaled == dropProperties(divide(updateMaskPixel(im, mask), 10000))
    IN copyProperties([scaled EXCEPT !.bands =
                         [b \in {c \in DOMAIN scaled.bands : MatchesSR_B(c)} |->
                            scaled.bands[b]]], im)

\* image.updateMask(QA60.lt(1)): bands and properties as they were
S2QAMask(im) == updateMaskPixel(im, im.bands["QA60"].num < 1)

\* select(names, newNames): the named bands under their new names
selectRename(im, names, newNames) ==
    [im EXCEPT !.bands = [b \in Range(newNames) |->
                            im.bands[names[CHOOSE i \in DOMAIN newNames : newNames[i] = b]]]]

\* GAIN, in ten-thousandths, and BIAS, in hundred-thousandths
GAIN == [blue |-> 9778, green |-> 10053, red |-> 9765, NIR |-> 9983,
         SWIR1 |-> 9987, SWIR2 |-> 10030]

BIAS == [blue |-> 0 - 411, green |-> 0 - 93, red |-> 94, NIR |-> 0 - 10,
         SWIR1 |-> 0 - 150, SWIR2 |-> 0 - 120]

\* mutant: the gains alone
harmonize_NoBias(S2im) ==
    copyProperties(
        dropProperties([S2im EXCEPT !.bands =
            [b \in DOMAIN S2im.bands |->
               [num |-> 10 * GAIN[b] * S2im.bands[b].num,
                den |-> 100000 * S2im.bands[b].den]]]),
        S2im)

\* S2im.multiply(GAIN).add(BIAS).copyProperties(S2im, ["system:time_start"])
harmonize(S2im) ==
    copyProperties(
        dropProperties([S2im EXCEPT !.bands =
            [b \in DOMAIN S2im.bands |->
               [num |-> 10 * GAIN[b] * S2im.bands[b].num + BIAS[b] * S2im.bands[b].den,
                den |-> 100000 * S2im.bands[b].den]]]),
        S2im)

PreprocessInit ==
    /\ EarlierIdle
    /\ RestIdle
    /\ pp_collection \in OpticalCollections
    /\ pp_image \in CatalogueImages(SensorOf(pp_collection))
    /\ qa_masked = <<>>
    /\ selected = <<>>
    /\ preprocessed = <<>>
    /\ pp_pc = "filtered"

\* .map(L8QAMask)
MapL8QAMask ==
    /\ pp_pc = "filtered"
    /\ SensorOf(pp_collection) = "L8"
    /\ qa_masked' = L8QAMask(pp_image)
    /\ pp_pc' = "masked"
    /\ UNCHANGED <<pp_collection, pp_image, selected, preprocessed>>
    /\ UNCHANGED <<earlierVars, restVars>>

\* .map(S2QAMask)
MapS2QAMask ==
    /\ pp_pc = "filtered"
    /\ SensorOf(pp_collection) = "S2"
    /\ qa_masked' = S2QAMask(pp_image)
    /\ pp_pc' = "masked"
    /\ UNCHANGED <<pp_collection, pp_image, selected, preprocessed>>
    /\ UNCHANGED <<earlierVars, restVars>>

\* .select([...], ['blue','green','red','NIR','SWIR1','SWIR2'])
SelectBands ==
    /\ pp_pc = "masked"
    /\ selected' = selectRename(qa_masked, SelectedBands(SensorOf(pp_collection)),
                                RenamedBands)
    /\ pp_pc' = "selected"
    /\ UNCHANGED <<pp_collection, pp_image, qa_masked, preprocessed>>
    /\ UNCHANGED <<earlierVars, restVars>>

\* .map(harmonize), in the chains of S2training and S2
MapHarmonize ==
    /\ pp_pc = "selected"
    /\ pp_collection \in {"S2training", "S2"}
    /\ preprocessed' = harmonize(selected)
    /\ pp_pc' = "merged"
    /\ UNCHANGED <<pp_collection, pp_image, qa_masked, selected>>
    /\ UNCHANGED <<earlierVars, restVars>>

\* L8training.merge(S2training), L8.merge(S2): the Landsat 8 side
MergeL8 ==
    /\ pp_pc = "selected"
    /\ pp_collection \in {"L8training", "L8"}
    /\ preprocessed' = selected
    /\ pp_pc' = "merged"
    /\ UNCHANGED <<pp_collection, pp_image, qa_masked, selected>>
    /\ UNCHANGED <<earlierVars, restVars>>

PreprocessNext ==
    \/ MapL8QAMask
    \/ MapS2QAMask
    \/ SelectBands
    \/ MapHarmonize
    \/ MergeL8

SpecPreprocess == PreprocessInit /\ [][PreprocessNext]_vars

(***************************************************************************)
(* The smoothing of the radar classification: constructTimeSeries lines    *)
(* 322-350, classifyWater 769-797 and the Sentinel-1 accuracy script       *)
(* 172-180, at one pixel whose window lies inside the image.               *)
(***************************************************************************)
SmoothScripts == {"constructTimeSeries", "classifyWater",
                  "S1_classificationAccuracyAssessment"}

\* ee.Kernel.square({radius: 5, units: 'pixels', ...})
radius == 5

\* the pixels of a square kernel: (2 * radius + 1) on a side
KernelSize == (2 * radius + 1) * (2 * radius + 1)

\* the classification in the window of a pixel: the label at the pixel, the
\* number of pixels labelled water, and of those the ones where the wind
\* speed is 12 or more; windy tells whether the wind is at the pixel itself
Windows ==
    {[centre |-> c, water |-> k, windyWater |-> m, windy |-> w] :
        c \in {0, 1}, k \in 0..KernelSize, m \in 0..KernelSize, w \in BOOLEAN}

ClassifiedWindows ==
    {wd \in Windows : /\ wd.water >= wd.centre
                      /\ wd.water <= KernelSize - (1 - wd.centre)
                      /\ wd.windyWater <= wd.water
                      /\ (wd.centre = 1 /\ wd.windy) => wd.windyWater >= 1
                      /\ (wd.centre = 1 /\ ~wd.windy) => wd.windyWater < wd.water}

\* mutant: normalize: false, every weight 1
boxcar_Unnormalized == [weight |-> [num |-> 1, den |-> 1], pixels |-> KernelSize]

\* the kernel: a weight per pixel of the window, as a fraction
boxcar == [weight |-> [num |-> 1, den |-> KernelSize], pixels |-> KernelSize]

\* Image.convolve(kernel) of a 0/1 band at a pixel: the weights of the
\* window's water pixels, summed
convolve(wd, kernel) ==
    [num |-> wd.water * kernel.weight.num, den |-> kernel.weight.den]

\* Image.gt(0.97), the value in hundredths
gt(value, hundredths) == IF value.num * 100 > hundredths * value.den THEN 1 ELSE 0

SmoothInit ==
    /\ EarlierIdle
    /\ PreprocessIdle
    /\ UIIdle
    /\ sm_script \in SmoothScripts
    /\ window \in ClassifiedWindows
    /\ sm_script = "S1_classificationAccuracyAssessment" =>
         (~window.windy /\ window.windyWater = 0)
    /\ smooth = <<>> /\ waterIm = <<>>
    /\ sm_pc = "classified"

\* S1_cf.map(function(im){return im.select('classification')
\*   .convolve(boxcar).gt(0.97)})
MapConvolveGt ==
    /\ sm_pc = "classified"
    /\ sm_script \in {"constructTimeSeries", "classifyWater"}
    /\ smooth' = convolve(window, boxcar)
    /\ waterIm' = gt(smooth', 97)
    /\ sm_pc' = "smoothed"
    /\ UNCHANGED <<sm_script, window>>
    /\ UNCHANGED <<earlierVars, preprocessVars, uiVars>>

\* .map(windMask): im.updateMask(ws.select('windy').lt(12.0))
MapWindMaskSmoothed ==
    /\ sm_pc = "smoothed"
    /\ sm_script \in {"constructTimeSeries", "classifyWater"}
    /\ waterIm' = IF window.windy THEN NoData ELSE waterIm
    /\ sm_pc' = "masked"
    /\ UNCHANGED <<sm_script, window, smooth>>
    /\ UNCHANGED <<earlierVars, preprocessVars, uiVars>>

\* var smooth = classified.convolve(boxcar)
Convolve ==
    /\ sm_pc = "classified"
    /\ sm_script = "S1_classificationAccuracyAssessment"
    /\ smooth' = convolve(window, boxcar)
    /\ sm_pc' = "convolved"
    /\ UNCHANGED <<sm_script, window, waterIm>>
    /\ UNCHANGED <<earlierVars, preprocessVars, uiVars>>

\* var waterIm = smooth.gt(0.97)
Gt ==
    /\ sm_pc = "convolved"
    /\ waterIm' = gt(smooth, 97)
    /\ sm_pc' = "smoothed"
    /\ UNCHANGED <<sm_script, window, smooth>>
    /\ UNCHANGED <<earlierVars, preprocessVars, uiVars>>

SmoothNext ==
    \/ MapConvolveGt
    \/ MapWindMaskSmoothed
    \/ Convolve
    \/ Gt

SpecSmooth == SmoothInit /\ [][SmoothNext]_vars

(***************************************************************************)
(* SWIFT.js: the chain of selections (lines 284-368), the 'Classify        *)
(* Allotment' button and the result labels.  The callbacks of evaluate     *)
(* return one at a time, in any order.                                     *)
(***************************************************************************)
MaxActions == 6    \* user actions in a session

nonUIVars == <<earlierVars, preprocessVars, smoothVars>>

\* the grazing allotments asset: State_Name, National_F, ADMIN_ORG_, ALLOTMENT_
allotments_asset ==
    {[State_Name |-> "Arizona", National_F |-> "Tonto", ADMIN_ORG_ |-> "Globe",
      ALLOTMENT_ |-> "Hicks"],
     [State_Name |-> "Arizona", National_F |-> "Tonto", ADMIN_ORG_ |-> "Globe",
      ALLOTMENT_ |-> "Sleeping Beauty"],
     [State_Name |-> "New Mexico", National_F |-> "Gila", ADMIN_ORG_ |-> "Reserve",
      ALLOTMENT_ |-> "Deep Creek"]}

\* var stateNames: the names of the states
stateNames == {r.State_Name : r \in allotments_asset}

getForest(state) == {r.National_F : r \in {q \in allotments_asset : q.State_Name = state}}

getDistrict(forest) == {r.ADMIN_ORG_ : r \in {q \in allotments_asset : q.National_F = forest}}

getAllotment(district) ==
    {r.ALLOTMENT_ : r \in {q \in allotments_asset : q.ADMIN_ORG_ = district}}

\* the days the slider is set to: the default and an earlier day
SliderDays == {DaysBefore(4) + 10, DaysBefore(4) + 20}

\* ee.Date.advance(delta, 'day')
advance(date, delta) == date + delta

\* ui.Select([], placeholder)
Select == [items |-> {}, value |-> "", handlers |-> 0]

\* the values results.get('dateYMD') and results.get('area(m2)') of a run
dateYMD(run) == <<"dateYMD", run.AOI, run.start_date, run.end_date>>

areaM2(run) == <<"area(m2)", run.AOI, run.start_date, run.end_date>>

\* n evaluate calls with the same request
Requests(kind, arg, n) ==
    IF n = 0 THEN EmptyBag ELSE [cb \in {[kind |-> kind, arg |-> arg]} |-> n]

Returned(cb) == pending (-) SetToBag({cb})

UIInit ==
    /\ EarlierIdle
    /\ PreprocessIdle
    /\ SmoothIdle
    /\ stateDD = Select /\ nationalforestDD = Select
    /\ districtDD = Select /\ allotmentDD = Select
    /\ classifyButton = <<>>
    /\ dateSelect = DaysBefore(4) + 20
    /\ pending = Requests("stateNames", "", 1)
    /\ runs = <<>>
    /\ dateLabel = "Classifying Images..." /\ areaLabel = " "
    /\ clicks = <<>>
    /\ ui_steps = 0

\* stateNames.evaluate(function(s){ stateDD.items().reset(s); stateDD.onChange(...) })
ReturnStateNames ==
    /\ \E cb \in BagToSet(pending) :
         /\ cb.kind = "stateNames"
         /\ pending' = Returned(cb)
    /\ stateDD' = [stateDD EXCEPT !.items = stateNames, !.handlers = @ + 1]
    /\ UNCHANGED <<nationalforestDD, districtDD, allotmentDD, classifyButton,
                   dateSelect, runs, dateLabel, areaLabel, clicks, ui_steps>>
    /\ UNCHANGED nonUIVars

\* the user picks a state: every callback of stateDD.onChange runs, each
\* calling getForest(state).evaluate
SelectState ==
    /\ ui_steps < MaxActions
    /\ \E state \in stateDD.items \ {stateDD.value} :
         /\ stateDD' = [stateDD EXCEPT !.value = state]
         /\ pending' = pending (+) Requests("forestNames", state, stateDD.handlers)
    /\ ui_steps' = ui_steps + 1
    /\ UNCHANGED <<nationalforestDD, districtDD, allotmentDD, classifyButton,
                   dateSelect, runs, dateLabel, areaLabel, clicks>>
    /\ UNCHANGED nonUIVars

\* forestNames.evaluate(function(f){ nationalforestDD.items().reset(f);
\*   nationalforestDD.onChange(...) })
ReturnForestNames ==
    /\ \E cb \in BagToSet(pending) :
         /\ cb.kind = "forestNames"
         /\ pending' = Returned(cb)
         /\ nationalforestDD' = [nationalforestDD EXCEPT !.items = getForest(cb.arg),
                                                         !.handlers = @ + 1]
    /\ UNCHANGED <<stateDD, districtDD, allotmentDD, classifyButton,
                   dateSelect, runs, dateLabel, areaLabel, clicks, ui_steps>>
    /\ UNCHANGED nonUIVars

SelectForest ==
    /\ ui_steps < MaxActions
    /\ \E forest \in nationalforestDD.items \ {nationalforestDD.value} :
         /\ nationalforestDD' = [nationalforestDD EXCEPT !.value = forest]
         /\ pending' = pending (+) Requests("districtNames", forest,
                                            nationalforestDD.handlers)
    /\ ui_steps' = ui_steps + 1
    /\ UNCHANGED <<stateDD, districtDD, allotmentDD, classifyButton,
                   dateSelect, runs, dateLabel, areaLabel, clicks>>
    /\ UNCHANGED nonUIVars

\* districtNames.evaluate(function(d){ districtDD.items().reset(d);
\*   districtDD.onChange(...) })
ReturnDistrictNames ==
    /\ \E cb \in BagToSet(pending) :
         /\ cb.kind = "districtNames"
         /\ pending' = Returned(cb)
         /\ districtDD' = [districtDD EXCEPT !.items = getDistrict(cb.arg),
                                               !.handlers = @ + 1]
    /\ UNCHANGED <<stateDD, nationalforestDD, allotmentDD, classifyButton,
                   dateSelect, runs, dateLabel, areaLabel, clicks, ui_steps>>
    /\ UNCHANGED nonUIVars

SelectDistrict ==
    /\ ui_steps < MaxActions
    /\ \E selection \in districtDD.items \ {districtDD.value} :
         /\ districtDD' = [districtDD EXCEPT !.value = selection]
         /\ pending' = pending (+) Requests("allotmentNames", selection,
                                            districtDD.handlers)
    /\ ui_steps' = ui_steps + 1
    /\ UNCHANGED <<stateDD, nationalforestDD, allotmentDD, classifyButton,
                   dateSelect, runs, dateLabel, areaLabel, clicks>>
    /\ UNCHANGED nonUIVars

\* allotmentNames.evaluate(function(a){ allotmentDD.items().reset(a);
\*   allotmentDD.onChange(...) })
ReturnAllotmentNames ==
    /\ \E cb \in BagToSet(pending) :
         /\ cb.kind = "allotmentNames"
         /\ pending' = Returned(cb)
         /\ allotmentDD' = [allotmentDD EXCEPT !.items = getAllotment(cb.arg),
                                                 !.handlers = @ + 1]
    /\ UNCHANGED <<stateDD, nationalforestDD, districtDD, classifyButton,
                   dateSelect, runs, dateLabel, areaLabel, clicks, ui_steps>>
    /\ UNCHANGED nonUIVars

\* the user picks an allotment: every callback of allotmentDD.onChange runs,
\* each calling classifyButton.onClick with a callback that closes over
\* allotmentSelected
SelectAllotment ==
    /\ ui_steps < MaxActions
    /\ \E selection \in allotmentDD.items \ {allotmentDD.value} :
         /\ allotmentDD' = [allotmentDD EXCEPT !.value = selection]
         /\ classifyButton' = classifyButton \o
              [i \in 1..allotmentDD.handlers |-> [allotmentSelected |-> selection]]
    /\ ui_steps' = ui_steps + 1
    /\ UNCHANGED <<stateDD, nationalforestDD, districtDD, dateSelect, pending,
                   runs, dateLabel, areaLabel, clicks>>
    /\ UNCHANGED nonUIVars

\* the user moves the date slider
SetDateSelect ==
    /\ ui_steps < MaxActions
    /\ \E day \in SliderDays \ {dateSelect} : dateSelect' = day
    /\ ui_steps' = ui_steps + 1
    /\ UNCHANGED <<stateDD, nationalforestDD, districtDD, allotmentDD, classifyButton,
                   pending, runs, dateLabel, areaLabel, clicks>>
    /\ UNCHANGED nonUIVars

\* the callback of line 330, for the allotment it closed over: the call of
\* classifyWater
onClick(closure, click) ==
    [AOI |-> closure.allotmentSelected,
     start_date |-> advance(dateSelect, 0 - 5),
     end_date |-> dateSelect,
     click |-> click]

\* the user clicks 'Classify Allotment': every registered callback runs, in the
\* order registered, and asks for the two values of its results
Click ==
    /\ ui_steps < MaxActions
    /\ clicks' = Append(clicks, allotmentDD.value)
    /\ runs' = runs \o [i \in 1..Len(classifyButton) |->
                          onClick(classifyButton[i], Len(clicks) + 1)]
    /\ pending' = pending (+)
         SetToBag({[kind |-> k, arg |-> Len(runs) + i] :
                     k \in {"dateYMD", "area(m2)"}, i \in 1..Len(classifyButton)})
    /\ ui_steps' = ui_steps + 1
    /\ UNCHANGED <<stateDD, nationalforestDD, districtDD, allotmentDD, classifyButton,
                   dateSelect, dateLabel, areaLabel>>
    /\ UNCHANGED nonUIVars

\* results.get('dateYMD').evaluate(function(val){ dateLabel.setValue(...) })
ReturnDateYMD ==
    /\ \E cb \in BagToSet(pending) :
         /\ cb.kind = "dateYMD"
         /\ pending' = Returned(cb)
         /\ dateLabel' = dateYMD(runs[cb.arg])
    /\ UNCHANGED <<stateDD, nationalforestDD, districtDD, allotmentDD, classifyButton,
                   dateSelect, runs, areaLabel, clicks, ui_steps>>
    /\ UNCHANGED nonUIVars

\* results.get('area(m2)').evaluate(function(val){ areaLabel.setValue(...) })
ReturnArea ==
    /\ \E cb \in BagToSet(pending) :
         /\ cb.kind = "area(m2)"
         /\ pending' = Returned(cb)
         /\ areaLabel' = areaM2(runs[cb.arg])
    /\ UNCHANGED <<stateDD, nationalforestDD, districtDD, allotmentDD, classifyButton,
                   dateSelect, runs, dateLabel, clicks, ui_steps>>
    /\ UNCHANGED nonUIVars

UINext ==
    \/ ReturnStateNames
    \/ SelectState
    \/ ReturnForestNames
    \/ SelectForest
    \/ ReturnDistrictNames
    \/ SelectDistrict
    \/ ReturnAllotmentNames
    \/ SelectAllotment
    \/ SetDateSelect
    \/ Click
    \/ ReturnDateYMD
    \/ ReturnArea

SpecUI == UIInit /\ [][UINext]_vars

(***************************************************************************)
(* Properties.                                                             *)
(***************************************************************************)
\* the width of the periods of the run's date sequence
PeriodWidth == IF script = "classifyWater" THEN weekDifference ELSE monthDifference

\* the classified images acquired within the i-th period
PeriodImages(i) ==
    {im \in collection : FilterDate(im.time, listMap[i], listMap[i] + PeriodWidth)}

\* the pixels of a region that are water in the i-th composite and near drainage
WaterPixels(i, geometry) ==
    {p \in geometry : mosaics[i].px[p] = 2 /\ HAND[p] < 10}

\* C1: for every period composite and every region (the AOI, each allotment),
\* the reported area is the sum of the pixel areas over exactly the unmasked
\* pixels of the region whose composite classification is 1: maskNonWater
\* never removes a pixel whose classification is 1.
C1_AreaSumsWaterPixels ==
    /\ \A i \in DOMAIN water_collection : \A p \in Pixels :
         mosaics[i].px[p] = 2 => water_collection[i].px[p] # NoData
    /\ \A i \in DOMAIN waterArea_AOI :
         waterArea_AOI[i].area.num = 2 * pixelArea * Cardinality(WaterPixels(i, AOI))
    /\ \A a \in DOMAIN waterArea_allotments : \A i \in DOMAIN waterArea_allotments[a].area :
         waterArea_allotments[a].area[i].num
            = 2 * pixelArea * Cardinality(WaterPixels(i, AllotmentGeometry[a]))

\* C2: the composite of every period start is the per-pixel median of exactly
\* the classified images acquired inside that period.
C2_CompositeIsMedianOfPeriod ==
    \A i \in DOMAIN mosaics :
        mosaics[i].px = [p \in Pixels |-> Median(PeriodImages(i), p)]

\* C3: the period starts partition the query range: the first is start_date,
\* consecutive starts differ by one period width, and every period start is
\* strictly before end_date.
C3_PeriodsPartitionRange ==
    listMap # <<>> =>
        /\ listMap[1] = start_date
        /\ \A i \in 1..(Len(listMap) - 1) : listMap[i + 1] - listMap[i] = PeriodWidth
        /\ \A i \in DOMAIN listMap : listMap[i] < end_date

\* C4: in constructTimeSeries consecutive composites are exactly one week apart.
C4_TimeSeriesIsWeekly ==
    script = "constructTimeSeries" =>
        \A i \in 1..(Len(mosaics) - 1) :
            mosaics[i + 1].time_start = AdvanceWeek(mosaics[i].time_start)

\* C5: the numbImages of every composite is the number of classified images
\* acquired within its period.
C5_NumbImagesCountsPeriod ==
    \A i \in DOMAIN mosaics : mosaics[i].numbImages = Cardinality(PeriodImages(i))

\* C6: the reported area is in square metres: when exactly one pixel of the
\* AOI is unmasked water in a composite, and no other pixel of the AOI holds
\* a fractional value, the reported area is 900.
C6_AreaInSquareMetres ==
    \A i \in DOMAIN waterArea_AOI :
        (/\ Cardinality(WaterPixels(i, AOI)) = 1
         /\ \A p \in AOI : mosaics[i].px[p] # 1)
            => waterArea_AOI[i].area.num = 900 * waterArea_AOI[i].area.den

\* C7: in the image passed to the area reduction, a pixel with HAND >= 10 m is
\* masked, and a pixel with HAND < 10 m is not masked by the drainage mask.
C7_HANDmaskReachesReduction ==
    \A i \in DOMAIN waterArea_AOI : \A p \in Pixels :
        /\ HAND[p] >= 10 => waterArea_AOI[i].px[p] = NoData
        /\ HAND[p] < 10 => waterArea_AOI[i].px[p] = water_collection[i].px[p]

\* the wind speed of the CFSV2 raster of day d is at least 12.0 km/h
WindyOn(d) ==
    36 * 36 * (wind[d][1] * wind[d][1] + wind[d][2] * wind[d][2]) >= (12 * 30) * (12 * 30)

\* C8: windMask excludes the pixels of a radar image exactly when the wind
\* speed over that image's own acquisition window is >= 12.0 km/h.
C8_WindMaskOfOwnWindow ==
    \A r \in S1_classified : \A src \in catalog :
        (src.sensor = r.sensor /\ src.time = r.time) =>
            \A p \in Pixels :
                src.px[p] # NoData => ((r.px[p] = NoData) <=> WindyOn(r.time))

\* C9: the median of a non-empty set of binary observations is a label:
\* 1 when the ones outnumber the zeros, else 0 (ties resolve low).
C9_MedianIsBinary ==
    \A i \in DOMAIN mosaics : \A p \in Pixels :
        LET n0 == Cardinality({im \in collection : im.px[p] = 0})
            n2 == Cardinality({im \in collection : im.px[p] = 2})
        IN  n0 + n2 > 0 => mosaics[i].px[p] = (IF n2 > n0 THEN 2 ELSE 0)

\* C10: a period without images still gets a composite, the pipeline does not
\* fail on it, and its record has a null area (no pixel reaches the sum).
C10_EmptyPeriodCarriesNullArea ==
    /\ pc = "failed" => \A i \in DOMAIN mosaics : PeriodImages(i) # {}
    /\ \A i \in DOMAIN waterArea_AOI :
         PeriodImages(i) = {} => \A p \in AOI : waterArea_AOI[i].px[p] = NoData

\* C11: the reported area of every composite and region is never negative,
\* and it is 0 when the region holds no unmasked water pixel.
C11_AreaZeroWithoutWater ==
    /\ \A i \in DOMAIN waterArea_AOI :
         /\ waterArea_AOI[i].area.num >= 0
         /\ WaterPixels(i, AOI) = {} => waterArea_AOI[i].area.num = 0
    /\ \A a \in DOMAIN waterArea_allotments : \A i \in DOMAIN waterArea_allotments[a].area :
         /\ waterArea_allotments[a].area[i].num >= 0
         /\ WaterPixels(i, AllotmentGeometry[a]) = {}
              => waterArea_allotments[a].area[i].num = 0

\* C12: in constructTimeSeries every allotment's 'area' and 'date' lists hold
\* one entry per period composite, no period start is repeated, and the AOI
\* series holds one record per period composite.
C12_OneRecordPerRegionAndPeriod ==
    (script = "constructTimeSeries" /\ pc = "done") =>
        /\ Len(waterArea_AOI) = Len(mosaics)
        /\ \A i \in DOMAIN waterArea_AOI : waterArea_AOI[i].date = listMap[i]
        /\ \A a \in DOMAIN waterArea_allotments :
             /\ Len(waterArea_allotments[a].area) = Len(mosaics)
             /\ Len(waterArea_allotments[a].date) = Len(mosaics)
             /\ \A i \in DOMAIN mosaics : waterArea_allotments[a].date[i] = listMap[i]
        /\ \A i, j \in DOMAIN listMap : i # j => listMap[i] # listMap[j]

\* a run of constructTimeSeries that exported two periods for two allotments,
\* one of them without water in a period
C12_Witness ==
    /\ script = "constructTimeSeries" /\ pc = "done"
    /\ Len(mosaics) = 2
    /\ DOMAIN waterArea_allotments = Allotments
    /\ waterArea_allotments[1].area[1].num > 0
    /\ waterArea_allotments[2].area[1].num = 0

\* the area (doubled, in m^2) of the valid pixels of a geometry in a raster,
\* counted pixel by pixel
OwnArea(px, geometry) ==
    pixelArea * (Cardinality({p \in geometry : px[p] = 1})
                   + 2 * Cardinality({p \in geometry : px[p] = 2}))

\* C13: the area computed for an allotment is a function of that allotment's
\* geometry and of the composites alone, whatever other allotments the
\* collection holds; the AOI total holds the AOI's own pixels only.
C13_AllotmentsIndependent ==
    /\ \A a \in DOMAIN waterArea_allotments : \A i \in DOMAIN water_masked :
         waterArea_allotments[a].area[i].num
            = OwnArea(water_masked[i].px, AllotmentGeometry[a])
    /\ (script = "constructTimeSeries" /\ pc = "done") =>
         \A i \in DOMAIN waterArea_AOI :
             waterArea_AOI[i].area.num = OwnArea(water_masked[i].px, AOI)

\* an allotment reduced alone, with half a water pixel of its own, while the
\* AOI holds that pixel too
C13_Witness ==
    /\ script = "constructTimeSeries" /\ pc = "done"
    /\ DOMAIN waterArea_allotments = {1}
    /\ waterArea_allotments[1].area[1].num = pixelArea
    /\ waterArea_AOI[1].area.num = pixelArea

\* C19: classifyWater returns the composite of the latest period of the date
\* sequence, and the dateYMD it reports is that composite's.
C19_ReturnsLatestComposite ==
    (script = "classifyWater" /\ pc = "done") =>
        /\ im_return.time_start = listMap[Len(listMap)]
        /\ im_return.dateYMD = listMap[Len(listMap)]

\* C14: waterMapping returns MNDWI = (green - SWIR1) / (green + SWIR1),
\* AWEIsh = blue + 2.5 green - 1.5 (NIR + SWIR1) - 0.25 SWIR2,
\* TCW = 0.1511 blue + 0.1973 green + 0.3283 red + 0.3407 NIR - 0.7117 SWIR1
\* - 0.4559 SWIR2 and NDVI = (NIR - red) / (NIR + red), in all three scripts
\* (the quotients wherever their denominator is not zero).
C14_WaterIndices ==
    wm_pc # "image" /\ wm_pc # "idle" =>
        LET v == wm_return.value
            b == wm_im["blue"]   g == wm_im["green"]   r == wm_im["red"]
            n == wm_im["NIR"]    s1 == wm_im["SWIR1"]  s2 == wm_im["SWIR2"]
        IN /\ g + s1 # 0 => v["MNDWI"].num * (g + s1) = (g - s1) * v["MNDWI"].den
                              /\ v["MNDWI"].den # 0
           /\ n + r # 0 => v["NDVI"].num * (n + r) = (n - r) * v["NDVI"].den
                              /\ v["NDVI"].den # 0
           /\ 4 * v["AWEIsh"].num
                 = (4 * b + 10 * g - 6 * (n + s1) - s2) * v["AWEIsh"].den
           /\ v["AWEIsh"].den # 0
           /\ 10000 * v[TCWname(wm_script)].num
                 = (1511 * b + 1973 * g + 3283 * r + 3407 * n - 7117 * s1 - 4559 * s2)
                     * v[TCWname(wm_script)].den
           /\ v[TCWname(wm_script)].den # 0

\* a pixel of constructTimeSeries whose four indices all differ from zero and
\* whose two normalized differences have opposite signs
C14_Witness ==
    /\ wm_pc = "mapped" /\ wm_script = "constructTimeSeries"
    /\ wm_return.value["MNDWI"].num > 0
    /\ wm_return.value["NDVI"].num < 0
    /\ wm_return.value["AWEIsh"].num > 0
    /\ wm_return.value["TWC"].num < 0

\* C15 as stated: in every script the image waterMapping returns holds exactly
\* the bands [MNDWI, AWEIsh, TCW, NDVI], in that order, and that list is the
\* inputProperties of the script's optical classifier.
C15_ReturnsExactlyThePredictors ==
    wm_pc # "image" /\ wm_pc # "idle" =>
        /\ wm_return.bands = <<"MNDWI", "AWEIsh", "TCW", "NDVI">>
        /\ wm_return.bands = optical_bands(wm_script)

\* C15, amended: in every script the image handed to classify holds exactly
\* the bands of the script's inputProperties list, in its order: waterMapping
\* returns that list itself in constructTimeSeries (where the wetness band is
\* named TWC) and in classifyWater, and the accuracy script, whose
\* waterMapping returns red, green, blue before the four predictors, selects
\* the list before it classifies.
C15_ClassifiedBandsAreThePredictors ==
    /\ wm_pc = "classified" => wm_input.bands = optical_bands(wm_script)
    /\ wm_pc # "image" /\ wm_pc # "idle" =>
         /\ wm_script # "L8S2_classificationAccuracyAssessment"
              => wm_return.bands = optical_bands(wm_script)
         /\ wm_script = "L8S2_classificationAccuracyAssessment"
              => wm_return.bands = <<"red", "green", "blue">> \o optical_bands(wm_script)
         /\ wm_script # "constructTimeSeries"
              => optical_bands(wm_script) = <<"MNDWI", "AWEIsh", "TCW", "NDVI">>
         /\ wm_script = "constructTimeSeries"
              => optical_bands(wm_script) = <<"MNDWI", "AWEIsh", "TWC", "NDVI">>

\* the accuracy script classified an image after selecting four of the seven
\* bands of waterMapping
C15_Witness ==
    /\ wm_pc = "classified"
    /\ wm_script = "L8S2_classificationAccuracyAssessment"
    /\ Len(wm_return.bands) = 7
    /\ Len(wm_input.bands) = 4

\* C17: in both accuracy scripts the training partition (random < 0.8, 8
\* tenths) and the testing partition (random >= 0.8) are disjoint and together hold every
\* sampled record, the classifier is trained on the training partition only,
\* and the error matrix, the accuracy and the kappa are those of the testing
\* partition alone, 'water' against 'classification'.
C17_SplitTrainTest ==
    /\ acc_pc \in {"split", "trained", "validated", "done"} =>
         /\ training \cap testing = {}
         /\ training \cup testing = observedPoints
         /\ \A r \in observedPoints : (r \in training) <=> (r.random < 8)
         /\ \A r \in observedPoints : (r \in testing) <=> (r.random >= 8)
    /\ acc_pc \in {"trained", "validated", "done"} =>
         /\ classifier.features = training
         /\ classifier.features \cap testing = {}
    /\ acc_pc = "done" =>
         LET held == {r \in observedPoints : r.random >= 8}
             cell(a, q) == Cardinality({r \in held : r.water = a
                                          /\ classifier.predict[r.point] = q})
             n == Cardinality(held)
             chance == (cell(0, 0) + cell(0, 1)) * (cell(0, 0) + cell(1, 0))
                         + (cell(1, 0) + cell(1, 1)) * (cell(0, 1) + cell(1, 1))
         IN /\ \A a, q \in {0, 1} : testAccuracy.matrix[a][q] = cell(a, q)
            /\ testAccuracy.accuracy = [num |-> cell(0, 0) + cell(1, 1), den |-> n]
            /\ testAccuracy.kappa = [num |-> n * (cell(0, 0) + cell(1, 1)) - chance,
                                     den |-> n * n - chance]

\* a finished assessment with records in both partitions, one of them drawn
\* at exactly 0.8, and a testing record the classifier gets wrong
C17_Witness ==
    /\ acc_pc = "done"
    /\ training # {}
    /\ \E r \in testing : r.random = split
    /\ testAccuracy.matrix[1][0] > 0
    /\ testAccuracy.matrix[0][0] > 0

\* C18: in the L8S2 accuracy script every Landsat 8 image and every
\* harmonized Sentinel-2 image of the merged collection is an input of
\* collection_ind_mosaic, the mosaic that is sampled and classified.
C18_MosaicOfBothSensors ==
    (acc_script = "L8S2_classificationAccuracyAssessment"
        /\ acc_pc \notin {"idle", "start"}) =>
        /\ acc_collection = L8 \cup S2
        /\ acc_mosaic.inputs = acc_collection

\* the time a formatted date stands for
TimeOf(date) == CHOOSE t \in Times : format(t) = date

\* t is not later than u
NotLater(t, u) == t[1] < u[1] \/ (t[1] = u[1] /\ t[2] <= u[2])

\* C20: the chart's dates ascend in time and areas_sorted[i] is the area of a
\* row of the selected allotment whose date is dates_sorted[i], every row
\* being charted once, whatever the order of the rows in the asset.
C20_ChartSortedAndPaired ==
    plot_pc = "plotted" =>
        LET allotment == SelectSeq(allotmentRecords,
                                   LAMBDA r : r.allotmentName = allotmentSelected)
        IN /\ Len(dates_sorted) = Len(allotment)
           /\ Len(areas_sorted) = Len(allotment)
           /\ \A i, j \in DOMAIN dates_sorted :
                i < j => NotLater(TimeOf(dates_sorted[i]), TimeOf(dates_sorted[j]))
           /\ \A d \in {format(t) : t \in Times} : \A a \in Areas :
                Cardinality({i \in DOMAIN dates_sorted :
                               dates_sorted[i] = d /\ areas_sorted[i] = a})
                  = Cardinality({i \in DOMAIN allotment :
                                   allotment[i].date = d /\ allotment[i].area = a})

\* a chart of three rows stored latest first, with the larger area on the
\* earliest date
C20_Witness ==
    /\ plot_pc = "plotted"
    /\ Len(allotmentRecords) = 3
    /\ \A i \in DOMAIN allotmentRecords : allotmentRecords[i].allotmentName = allotmentSelected
    /\ allotmentRecords[1].date = format(<<2014, DaysBefore(3)>>)
    /\ allotmentRecords[2].date = format(<<2013, DaysBefore(11)>>)
    /\ allotmentRecords[3].date = format(<<2013, DaysBefore(4)>>)
    /\ allotmentRecords[3].area = 7 /\ allotmentRecords[1].area = 3
    /\ areas_sorted[1] = 7 /\ areas_sorted[3] = 3

\* bit n of a quality value
Bit(qa, n) == (qa \div (2 ^ n)) % 2

\* C23: L8QAMask keeps a pixel exactly when bits 3 and 5 of QA_PIXEL are both
\* 0, the value of every band it returns is the digital number divided by
\* 10000, it returns the SR_B bands only, and the output carries the input's
\* system:time_start.
C23_L8QAMask ==
    (SensorOf(pp_collection) = "L8" /\ pp_pc \notin {"idle", "filtered"}) =>
        LET qa == pp_image.bands["QA_PIXEL"].num
        IN /\ qa_masked.valid <=> (Bit(qa, 3) = 0 /\ Bit(qa, 5) = 0)
           /\ DOMAIN qa_masked.bands
                = {b \in DOMAIN pp_image.bands :
                     b \in {"SR_B1", "SR_B2", "SR_B3", "SR_B4", "SR_B5", "SR_B6", "SR_B7"}}
           /\ "QA_PIXEL" \notin DOMAIN qa_masked.bands
           /\ \A b \in DOMAIN qa_masked.bands :
                /\ qa_masked.bands[b].den # 0
                /\ qa_masked.bands[b].num * 10000
                     = pp_image.bands[b].num * qa_masked.bands[b].den
           /\ qa_masked.properties.time_start = pp_image.properties.time_start

\* a pixel flagged at bit 4 only is kept, with the value 1 in SR_B2
C23_Witness ==
    /\ pp_pc = "masked" /\ pp_collection = "L8"
    /\ pp_image.bands["QA_PIXEL"].num = 21824 + 16
    /\ qa_masked.valid
    /\ pp_image.bands["SR_B2"].num = 10000
    /\ qa_masked.bands["SR_B2"] = [num |-> 10000, den |-> 10000]

\* a pixel flagged at bit 5 is masked
C23_WitnessMasked ==
    /\ pp_pc = "masked" /\ pp_collection = "L8training"
    /\ pp_image.bands["QA_PIXEL"].num = 21824 + 32
    /\ ~qa_masked.valid

\* C24: y = gain * x + bias with the six fixed pairs is applied to every
\* Sentinel-2 image and to no Landsat 8 image, in the training and in the
\* query collections, and harmonize keeps system:time_start.
C24_HarmonizeSentinelOnly ==
    pp_pc = "merged" =>
        LET pairs == [blue |-> <<9778, 0 - 411>>, green |-> <<10053, 0 - 93>>,
                      red |-> <<9765, 94>>, NIR |-> <<9983, 0 - 10>>,
                      SWIR1 |-> <<9987, 0 - 150>>, SWIR2 |-> <<10030, 0 - 120>>]
        IN /\ DOMAIN preprocessed.bands = DOMAIN pairs
           /\ pp_collection \in {"L8training", "L8"} =>
                \A b \in DOMAIN pairs : preprocessed.bands[b] = selected.bands[b]
           /\ pp_collection \in {"S2training", "S2"} =>
                \A b \in DOMAIN pairs :
                    \* y = (gain / 10^4) * x + bias / 10^5, over 10^5 * den(x)
                    /\ preprocessed.bands[b].den = 100000 * selected.bands[b].den
                    /\ preprocessed.bands[b].num
                         = 10 * pairs[b][1] * selected.bands[b].num
                             + pairs[b][2] * selected.bands[b].den
           /\ preprocessed.properties.time_start = pp_image.properties.time_start
           /\ preprocessed.valid = qa_masked.valid

\* a Sentinel-2 query pixel, harmonized in its blue band
C24_Witness ==
    /\ pp_pc = "merged" /\ pp_collection = "S2"
    /\ selected.bands["blue"] = [num |-> 10000, den |-> 1]
    /\ preprocessed.bands["blue"] = [num |-> 977800000 - 411, den |-> 100000]
    /\ preprocessed.valid

\* C27: the band values of both sources have been divided by the scale
\* factor 10000 before harmonization and index computation: the selected
\* bands hold digital number / 10000 for Landsat 8 and for Sentinel-2.
C27_SameReflectanceScale ==
    pp_pc \in {"selected", "merged"} =>
        \A i \in DOMAIN RenamedBands :
            LET dn == pp_image.bands[SelectedBands(SensorOf(pp_collection))[i]].num
                v == selected.bands[RenamedBands[i]]
            IN v.num * 10000 = dn * v.den

\* the records of a sample that stand for point p
RecordsOf(features, p) == {r \in features : r.point = p}

\* C25: every sampled, training and testing record carries water = 1 exactly
\* when its point is of the digitized water set and water = 0 exactly when it
\* is of the non-water set; every point the sampled image covers has one
\* record, and the split and the classification keep its label.
C25_LabelsFollowPointSet ==
    acc_pc \in {"sampled", "split", "trained", "validated", "done"} =>
        /\ \A r \in observedPoints \cup training \cup testing \cup validation :
             /\ (r.water = 1) <=> (r.point \in water)
             /\ (r.water = 0) <=> (r.point \in nonWater)
        /\ \A p \in Points :
             Cardinality(RecordsOf(observedPoints, p))
               = IF p \in acc_mosaic.footprint THEN 1 ELSE 0
        /\ acc_pc # "sampled" =>
             \A r \in observedPoints :
               \E q \in training \cup testing : q.point = r.point /\ q.water = r.water
        /\ acc_pc \in {"validated", "done"} =>
             \A r \in testing :
               \E q \in validation : q.point = r.point /\ q.water = r.water

\* a finished assessment that trained on a water and on a dry point and
\* tested on a water point
C25_Witness ==
    /\ acc_pc = "done"
    /\ \E r \in training : r.water = 1
    /\ \E r \in training : r.water = 0
    /\ \E r \in validation : r.water = 1

\* C26: in the Sentinel-1 accuracy script the mosaic that is sampled and
\* classified holds no pixel where the wind speed of its image is 12 or more.
C26_MosaicWindMasked ==
    (acc_script = "S1_classificationAccuracyAssessment"
        /\ acc_pc \in {"mosaic", "sampled", "split", "trained", "validated", "done"}) =>
        /\ \A im \in S1_preprocess : acc_mosaic.footprint \cap im.windy = {}
        /\ acc_pc # "mosaic" =>
             \A r \in observedPoints : \A im \in S1_preprocess : r.point \notin im.windy

C22_WitnessIsolated ==
    /\ sm_pc = "smoothed"
    /\ sm_script = "S1_classificationAccuracyAssessment"
    /\ window.centre = 1
    /\ window.water = 1
    /\ waterIm = 0

\* C21: every run of classifyWater started from the button covers the week
\* before the day of the slider: start_date is end_date minus 7 days.
C21_PreviousWeek ==
    \A i \in DOMAIN runs : runs[i].start_date = runs[i].end_date - 7

\* C28: every click made with an allotment selected has started exactly one
\* run of classifyWater, over the allotment selected at the click.
C28_OneRunPerClick ==
    \A c \in DOMAIN clicks :
        clicks[c] # "" =>
            /\ Cardinality({i \in DOMAIN runs : runs[i].click = c}) = 1
            /\ \A i \in DOMAIN runs : runs[i].click = c => runs[i].AOI = clicks[c]

\* C29: with two or more runs started and none of their callbacks still out,
\* the two labels show the date and the area of the run started last.
C29_LabelsOfLatestRun ==
    (Len(runs) >= 2
        /\ \A cb \in BagToSet(pending) : cb.kind \notin {"dateYMD", "area(m2)"}) =>
        /\ dateLabel = dateYMD(runs[Len(runs)])
        /\ areaLabel = areaM2(runs[Len(runs)])

\* C30: with no callback pending, the forest list holds the forests of the
\* selected state, the district list the districts of the selected forest and
\* the allotment list the allotments of the selected district.
C30_ListsFollowSelection ==
    pending = EmptyBag =>
        /\ stateDD.value # "" => nationalforestDD.items = getForest(stateDD.value)
        /\ nationalforestDD.value # "" =>
             districtDD.items = getDistrict(nationalforestDD.value)
        /\ districtDD.value # "" =>
             allotmentDD.items = getAllotment(districtDD.value)

====
